---- MODULE Spec2Model ----
(***************************************************************************)
(* Job lifecycle engine of the media compression service:                   *)
(*   app/services/job_manager.py  JobManager (the registry)                 *)
(*   app/main.py                  upload, orchestrator, endpoints, sweeper  *)
(* Every handler of app/main.py is an `async def` run on one event loop, so *)
(* the code between two awaits is one atomic step.  The registry methods    *)
(* are synchronous and therefore atomic.                                    *)
(***************************************************************************)
EXTENDS Integers, Sequences, FiniteSets, TLC

\* ---------------------------------------------------------------- bounds
MaxJobs == 2            \* number of jobs ever created in one run
MaxTicks == 1           \* number of times the clock advances in one run
MaxUpdates == 1         \* number of direct calls of update_job in one run
MaxTime == 40           \* last minute of a run whose clock moves in small steps

\* ------------------------------------------------------ program constants
CLEANUP_INTERVAL_MINUTES == 5
MAX_FILE_AGE_MINUTES == 30

max_file_size_mb == 500

\* ------------------------------------------------------------ value sets
\* str(uuid.uuid4())[:8]: a random draw from a finite identifier space
Ids == {"a1", "b2"}
\* session identifiers (32 hex characters in the application)
Sessions == {"sA", "sB"}
\* a falsy session filter (None or "")
NoSession == ""
Filters == Sessions \cup {NoSession}
\* upload_dir / f"{file_id}_{filename}"
SrcPaths == {"up1", "up2"}
\* download_dir / f"compressed_{input_path.stem}.<ext>"
OutPath(p) == IF p = "up1" THEN "dl1" ELSE "dl2"
OutPaths == {OutPath(p) : p \in SrcPaths}
Paths == SrcPaths \cup OutPaths
NoPath == "None"
SrcSizes == {1000}
\* the size of the file the encoder makes of an input file; the second
\* input is one that encodes to an empty file
OutSize(p) == IF p = "up1" THEN 400 ELSE 0
Absent == -1            \* the path does not exist on disk

PENDING == "pending"
PROCESSING == "processing"
COMPLETED == "completed"
FAILED == "failed"
JobStatus == {PENDING, PROCESSING, COMPLETED, FAILED}
NoStatus == "None"
NoProgress == -1
NoMsg == "None"
NoTime == -1
NoOutputMsg == "Compression produced no output"
\* the keys of PRESETS (one stands for the five), and the preset form values
\* an upload of a video or an image can carry: a key, or a string that is
\* no key
PRESETS == {"facebook"}
Presets == {"facebook", "bogus"}
\* str(KeyError("bogus"))
KeyErrorMsg == "'bogus'"
\* the await of compress_file raised nothing
NoExc == "NoExc"
\* str(e) of an exception the backend call raises: a message, or the empty
\* string (str(MemoryError()), str(RuntimeError()))
ExcMsgs == {"boom", ""}

\* session_id cookies of 32 characters, which uuid.uuid4().hex also returns
Tokens32 == {"0123456789abcdef0123456789abcdef",
             "fedcba9876543210fedcba9876543210"}
\* the values of the session_id cookie of a request: none (or empty), too
\* short, of the expected length, too long
Cookies == Tokens32 \cup {NoSession, "0123456789abcdef",
                          "0123456789abcdef0123456789abcdef0"}
\* file names of an upload, as sequences of characters
Filenames ==
  {<<>>,
   <<"a", ".", "j", "p", "g">>,
   <<"a", ".", "J", "P", "G">>,
   <<"a", ".", "p", "d", "f">>,
   <<".", "j", "p", "g">>}
\* two of the extensions of ALLOWED_IMAGE_EXTENSIONS | ALLOWED_VIDEO_EXTENSIONS
ALLOWED_EXTENSIONS == {<<".", "j", "p", "g">>, <<".", "m", "p", "4">>}
\* settings.max_file_size_mb * 1024 * 1024
MaxContent == max_file_size_mb * 1024 * 1024
\* len(content) of an upload
ContentSizes == {1000, MaxContent, MaxContent + 1}
NoSuchFileMsg == "No file provided"
UnsupportedMsg == "Unsupported file type"
TooLargeMsg == "File too large"
UploadedMsg == "Upload successful, processing started"

VARIABLES
  jobs,      \* JobManager.jobs: job id -> CompressionJob
  order,     \* key order of the dict JobManager.jobs
  files,     \* the filesystem: path -> byte size, or Absent
  tasks,     \* orchestrator executions, one per accepted upload
  now,       \* datetime.now(), in minutes
  sweeper,   \* position of cleanup_old_files: "sleeping", "ready" (its
             \* sleep has returned) or "stopped" (an exception left the loop)
  slept,     \* minutes of the current asyncio.sleep that have passed
  nextUid,   \* number of CompressionJob objects constructed so far, plus 1
  ticks,     \* number of times the clock has advanced
  updates,   \* number of direct calls of update_job so far
  last,      \* the direct call of a registry operation made by the last
             \* step and what it returned; NoCall if the step made none
  stuck,     \* the path whose unlink() raises (a file that is held open
             \* on a platform that locks it), NoPath if there is none
  denied,    \* the path whose exists() raises (PermissionError: its
             \* directory can no longer be searched), NoPath if there is none
  cookie     \* the session_id cookie a browser holds; NoSession if none

vars == <<jobs, order, files, tasks, now, sweeper, slept, nextUid, ticks,
          updates, last, stuck, denied, cookie>>

\* what lies outside the server process
world == <<stuck, denied, cookie>>
\* what only the clock, the sweeper and the world outside change
rest == <<slept, world>>

\* ------------------------------------------------------------- helpers
Truthy(s) == s # NoSession

Exists(F, p) == p # NoPath /\ F[p] # Absent

\* path.unlink() guarded by path.exists() and wrapped in try/except pass,
\* for a set of paths: a path whose unlink() raises stays on disk
Unlink(F, ps) == [p \in Paths |-> IF p \in ps \ {stuck} THEN Absent ELSE F[p]]

\* the files a record references
JobFiles(j) == {j.original_path, j.compressed_path} \ {NoPath}

Restrict(J, keep) == [i \in keep |-> J[i]]

RemoveKeys(s, gone) ==
  LET Keep(i) == i \notin gone IN SelectSeq(s, Keep)

Op(name, ret, raised) == [op |-> name, ret |-> ret, raised |-> raised]
NoCall == Op("none", 0, FALSE)

\* ------------------------------------------------------ the registry
\* CompressionJob(...) as constructed by create_job
NewJob(uid, id, sid, path, preset, size, t) ==
  [uid |-> uid, id |-> id, session_id |-> sid, original_path |-> path,
   preset |-> preset, status |-> PENDING, progress |-> 0,
   compressed_path |-> NoPath, original_size |-> size,
   compressed_size |-> 0, error_message |-> NoMsg,
   created_at |-> t, completed_at |-> NoTime]

\* get_job with the session comparison left out
get_job_NoFilter(J, id, sid) ==
  IF id \notin DOMAIN J THEN {} ELSE {J[id]}

\* JobManager.get_job
get_job(J, id, sid) ==
  IF id \notin DOMAIN J THEN {}
  ELSE IF Truthy(sid) /\ J[id].session_id # sid THEN {}
  ELSE {J[id]}

\* delete_job with the session comparison left out
delete_job_ret_NoFilter(J, id, sid) == id \in DOMAIN J

\* JobManager.delete_job: the value returned
delete_job_ret(J, id, sid) ==
  IF id \in DOMAIN J
  THEN IF Truthy(sid) /\ J[id].session_id # sid THEN FALSE ELSE TRUE
  ELSE FALSE

\* JobManager.delete_job: the registry afterwards
delete_job(J, id, sid) ==
  IF delete_job_ret(J, id, sid) THEN Restrict(J, DOMAIN J \ {id}) ELSE J

\* update_job that also stamps the creation time with the time of the call
UpdatedJob_Restamp(j, F, t, st, pr, cp, em) ==
  LET a == IF st # NoStatus
           THEN [j EXCEPT !.status = st,
                          !.completed_at = IF st = COMPLETED THEN t ELSE @]
           ELSE j
      b == IF pr # NoProgress THEN [a EXCEPT !.progress = pr] ELSE a
      statFails == cp # NoPath /\ F[cp] = Absent
      c == IF cp # NoPath
           THEN [b EXCEPT !.compressed_path = cp,
                          !.compressed_size = IF statFails THEN @ ELSE F[cp]]
           ELSE b
      d == IF ~statFails /\ em \notin {NoMsg, ""}
           THEN [c EXCEPT !.error_message = em]
           ELSE c
  IN  [job |-> [d EXCEPT !.created_at = t], raised |-> statFails]

\* update_job that forgets to store the size of the output file
UpdatedJob_NoSize(j, F, t, st, pr, cp, em) ==
  LET a == IF st # NoStatus
           THEN [j EXCEPT !.status = st,
                          !.completed_at = IF st = COMPLETED THEN t ELSE @]
           ELSE j
      b == IF pr # NoProgress THEN [a EXCEPT !.progress = pr] ELSE a
      c == IF cp # NoPath THEN [b EXCEPT !.compressed_path = cp] ELSE b
      d == IF em \notin {NoMsg, ""} THEN [c EXCEPT !.error_message = em] ELSE c
  IN  [job |-> d, raised |-> FALSE]

\* the body of update_job on a record that exists; stat() of a missing
\* compressed_path raises after the earlier assignments have been made
UpdatedJob(j, F, t, st, pr, cp, em) ==
  LET a == IF st # NoStatus
           THEN [j EXCEPT !.status = st,
                          !.completed_at = IF st = COMPLETED THEN t ELSE @]
           ELSE j
      b == IF pr # NoProgress THEN [a EXCEPT !.progress = pr] ELSE a
      statFails == cp # NoPath /\ F[cp] = Absent
      c == IF cp # NoPath
           THEN [b EXCEPT !.compressed_path = cp,
                          !.compressed_size = IF statFails THEN @ ELSE F[cp]]
           ELSE b
      d == IF ~statFails /\ em \notin {NoMsg, ""}
           THEN [c EXCEPT !.error_message = em]
           ELSE c
  IN  [job |-> d, raised |-> statFails]

\* update_job that is cut short after the status and the output location:
\* the progress passed in the same call is not written
update_job_Torn(J, F, t, id, st, pr, cp, em) ==
  IF id \in DOMAIN J
  THEN LET u == UpdatedJob(J[id], F, t, st, NoProgress, cp, em)
       IN  [jobs |-> [J EXCEPT ![id] = u.job], raised |-> u.raised]
  ELSE [jobs |-> J, raised |-> FALSE]

\* update_job that indexes the dict (self.jobs[job_id]) instead of .get()
update_job_KeyError(J, F, t, id, st, pr, cp, em) ==
  IF id \in DOMAIN J
  THEN LET u == UpdatedJob(J[id], F, t, st, pr, cp, em)
       IN  [jobs |-> [J EXCEPT ![id] = u.job], raised |-> u.raised]
  ELSE [jobs |-> J, raised |-> TRUE]

\* JobManager.update_job: the registry afterwards and whether it raised
update_job(J, F, t, id, st, pr, cp, em) ==
  IF id \in DOMAIN J
  THEN LET u == UpdatedJob(J[id], F, t, st, pr, cp, em)
       IN  [jobs |-> [J EXCEPT ![id] = u.job], raised |-> u.raised]
  ELSE [jobs |-> J, raised |-> FALSE]

\* round(x, 1) of the float x = n / (10 * d), d > 0, in tenths: the nearest
\* tenth, and the even one when x lies half-way (x is then a float without
\* representation error for the sizes used here)
RoundTenths(n, d) ==
  LET q == n \div d
      r == n - q * d
  IN  IF 2 * r < d THEN q
      ELSE IF 2 * r > d THEN q + 1
      ELSE IF q % 2 = 0 THEN q ELSE q + 1

\* CompressionJob._compression_ratio: no value (None), or the ratio in
\* tenths of a percent
compression_ratio(original_size, compressed_size) ==
  IF original_size > 0 /\ compressed_size > 0
  THEN {RoundTenths(1000 * (original_size - compressed_size), original_size)}
  ELSE {}

\* to_dict whose download_ready looks at the state only
to_dict_ReadyOnStatus(j) ==
  [id |-> j.id, preset |-> j.preset, status |-> j.status,
   progress |-> j.progress, original_size |-> j.original_size,
   compressed_size |-> j.compressed_size,
   compression_ratio |-> compression_ratio(j.original_size, j.compressed_size),
   error_message |-> j.error_message, created_at |-> j.created_at,
   completed_at |-> j.completed_at,
   download_ready |-> (j.status = COMPLETED),
   output_filename |-> j.compressed_path]

\* CompressionJob.to_dict
to_dict(j) ==
  [id |-> j.id, preset |-> j.preset, status |-> j.status,
   progress |-> j.progress, original_size |-> j.original_size,
   compressed_size |-> j.compressed_size,
   compression_ratio |-> compression_ratio(j.original_size, j.compressed_size),
   error_message |-> j.error_message, created_at |-> j.created_at,
   completed_at |-> j.completed_at,
   download_ready |-> (j.status = COMPLETED /\ j.compressed_path # NoPath),
   output_filename |-> j.compressed_path]

DropAt(s, k) == [m \in 1..(Len(s) - 1) |-> IF m < k THEN s[m] ELSE s[m + 1]]

\* sorted(jobs, key=created_at, reverse=True): newest first, and records
\* with equal keys keep the order they have in the dict
RECURSIVE SortNewestFirst(_, _)
SortNewestFirst(J, s) ==
  IF s = <<>> THEN <<>>
  ELSE LET k == CHOOSE n \in 1..Len(s) :
                  /\ \A m \in 1..Len(s) :
                        J[s[m]].created_at <= J[s[n]].created_at
                  /\ \A m \in 1..(n - 1) :
                        J[s[m]].created_at < J[s[n]].created_at
       IN  <<s[k]>> \o SortNewestFirst(J, DropAt(s, k))

\* list_jobs with the session filter left out
list_jobs_NoFilter(J, ord, sid) ==
  LET sorted == SortNewestFirst(J, ord)
  IN  [k \in 1..Len(sorted) |-> to_dict(J[sorted[k]])]

\* JobManager.list_jobs
list_jobs(J, ord, sid) ==
  LET Mine(i) == ~Truthy(sid) \/ J[i].session_id = sid
      sorted == SortNewestFirst(J, SelectSeq(ord, Mine))
  IN  [k \in 1..Len(sorted) |-> to_dict(J[sorted[k]])]

\* JobManager.cleanup_old_jobs: the ids it removes
Expired(J, t, maxAge) == {i \in DOMAIN J : t - J[i].created_at > maxAge}

\* JobManager.clear_all: the ids it removes
Cleared(J, sid) ==
  IF Truthy(sid) THEN {i \in DOMAIN J : J[i].session_id = sid} ELSE DOMAIN J

\* the files unlinked together with a set of records
FilesOf(J, ids) == UNION {JobFiles(J[i]) : i \in ids}

\* ------------------------------------------------------------- state
\* an orchestrator execution: the job id it was dispatched with, its
\* position, the job object it holds, and what the await of compress_file
\* gave it: a returned value (result), or a raised exception (exc)
Task(id, pc, job, result) ==
  [job_id |-> id, pc |-> pc, job |-> job, result |-> result, exc |-> NoExc]

\* the orchestrator holds no CompressionJob object
NoRef == [uid |-> 0]

\* the CompressionJob object the orchestrator holds: its identity and the
\* field it reads, which no code ever reassigns
Ref(j) == [uid |-> j.uid, original_path |-> j.original_path]

Init ==
  /\ jobs = [i \in {} |-> NoRef]
  /\ order = <<>>
  /\ files = [p \in Paths |-> Absent]
  /\ tasks = [t \in {} |-> NoRef]
  /\ now = 0
  /\ sweeper = "sleeping"
  /\ slept = 0
  /\ nextUid = 1
  /\ ticks = 0
  /\ updates = 0
  /\ last = NoCall
  /\ stuck = NoPath
  /\ denied = NoPath
  /\ cookie = NoSession

\* self.jobs[job_id] = job
Store(J, job) ==
  [i \in DOMAIN J \cup {job.id} |-> IF i = job.id THEN job ELSE J[i]]

\* a dict keeps the position of a key that is assigned again
StoreKey(ord, J, id) == IF id \in DOMAIN J THEN ord ELSE Append(ord, id)

Bool(b) == IF b THEN 1 ELSE 0

\* --------------------------------------------- registry operations
\* create_job that stores a record of size 0 when stat() fails
CreateJob_StoreAnyway(sid, path, id) ==
  /\ nextUid <= MaxJobs
  /\ nextUid = 1 => sid = "sA" /\ path = "up1" /\ id = "a1"
  /\ jobs' = Store(jobs, NewJob(nextUid, id, sid, path, "facebook",
                                IF files[path] = Absent THEN 0 ELSE files[path],
                                now))
  /\ order' = StoreKey(order, jobs, id)
  /\ nextUid' = nextUid + 1
  /\ last' = Op("Create", 0, files[path] = Absent)
  /\ UNCHANGED <<files, tasks, now, sweeper, ticks, updates, rest>>

\* JobManager.create_job called on its own with the default preset; id is
\* the value drawn by str(uuid.uuid4())[:8].  Sessions, paths and ids are interchangeable, so
\* the first call of a run is taken to use the first of each.
CreateJob(sid, path, id) ==
  /\ nextUid <= MaxJobs
  /\ nextUid = 1 => sid = "sA" /\ path = "up1" /\ id = "a1"
  /\ IF files[path] = Absent
     THEN \* original_path.stat() raises before the record is built
          /\ last' = Op("Create", 0, TRUE)
          /\ UNCHANGED <<jobs, order, nextUid>>
     ELSE /\ jobs' = Store(jobs, NewJob(nextUid, id, sid, path, "facebook",
                                        files[path], now))
          /\ order' = StoreKey(order, jobs, id)
          /\ nextUid' = nextUid + 1
          /\ last' = Op("Create", 0, FALSE)
  /\ UNCHANGED <<files, tasks, now, sweeper, ticks, updates, rest>>

\* JobManager.delete_job called on its own
DeleteJob(id, sid) ==
  /\ jobs' = delete_job(jobs, id, sid)
  /\ order' = RemoveKeys(order, DOMAIN jobs \ DOMAIN jobs')
  /\ last' = Op("Delete", Bool(delete_job_ret(jobs, id, sid)), FALSE)
  /\ UNCHANGED <<files, tasks, now, sweeper, nextUid, ticks, updates, rest>>

\* JobManager.update_job called on its own
UpdateJob(id, st, pr, cp, em) ==
  LET u == update_job(jobs, files, now, id, st, pr, cp, em) IN
  /\ updates < MaxUpdates
  /\ updates' = updates + 1
  /\ jobs' = u.jobs
  /\ last' = Op("Update", 0, u.raised)
  /\ UNCHANGED <<order, files, tasks, now, sweeper, nextUid, ticks, rest>>

\* the positions, in the dict order, of the records of a set at which
\* the unguarded exists() of a file of the record raises
RaisingAt(gone) ==
  {k \in 1..Len(order) :
     order[k] \in gone /\ denied \in JobFiles(jobs[order[k]])}

\* the files already unlinked when the loop over the records of a set
\* raises at position k: those of the earlier records and, when it is the
\* exists() of the output file that raises, the source file of this one
UnlinkedBefore(gone, k) ==
  FilesOf(jobs, {order[m] : m \in 1..(k - 1)} \cap gone)
    \cup ({jobs[order[k]].original_path} \ {denied})

First(ks) == CHOOSE k \in ks : \A m \in ks : k <= m

\* JobManager.clear_all raises
clear_all_raises(sid) == Truthy(sid) /\ RaisingAt(Cleared(jobs, sid)) # {}

\* JobManager.clear_all: its effect on the registry and on the disk; when
\* exists() raises the records before that one have been removed
clear_all(sid) ==
  LET gone == Cleared(jobs, sid) IN
  IF ~clear_all_raises(sid)
  THEN /\ jobs' = Restrict(jobs, DOMAIN jobs \ gone)
       /\ order' = RemoveKeys(order, gone)
       /\ files' = IF Truthy(sid) THEN Unlink(files, FilesOf(jobs, gone))
                   ELSE files
  ELSE LET k == First(RaisingAt(gone))
           done == {order[m] : m \in 1..(k - 1)} \cap gone
       IN  /\ jobs' = Restrict(jobs, DOMAIN jobs \ done)
           /\ order' = RemoveKeys(order, done)
           /\ files' = Unlink(files, UnlinkedBefore(gone, k))

\* JobManager.clear_all called on its own
ClearAll(sid) ==
  /\ clear_all(sid)
  /\ last' = IF clear_all_raises(sid) THEN Op("ClearAll", 0, TRUE)
              ELSE Op("ClearAll", Cardinality(Cleared(jobs, sid)), FALSE)
  /\ UNCHANGED <<tasks, now, sweeper, nextUid, ticks, updates, rest>>

\* JobManager.cleanup_old_jobs raises
cleanup_old_jobs_raises(maxAge) == RaisingAt(Expired(jobs, now, maxAge)) # {}

\* JobManager.cleanup_old_jobs: its effect on the registry and on the disk;
\* when exists() raises in the first loop no record has been removed yet
cleanup_old_jobs(maxAge) ==
  LET gone == Expired(jobs, now, maxAge) IN
  IF RaisingAt(gone) = {}
  THEN /\ jobs' = Restrict(jobs, DOMAIN jobs \ gone)
       /\ order' = RemoveKeys(order, gone)
       /\ files' = Unlink(files, FilesOf(jobs, gone))
  ELSE /\ files' = Unlink(files, UnlinkedBefore(gone, First(RaisingAt(gone))))
       /\ UNCHANGED <<jobs, order>>

\* JobManager.cleanup_old_jobs called on its own
EvictOlderThan(maxAge) ==
  /\ cleanup_old_jobs(maxAge)
  /\ last' = IF cleanup_old_jobs_raises(maxAge) THEN Op("Evict", 0, TRUE)
              ELSE Op("Evict", Cardinality(Expired(jobs, now, maxAge)), FALSE)
  /\ UNCHANGED <<tasks, now, sweeper, nextUid, ticks, updates, rest>>

\* a caller of the registry puts a file on disk
WriteFile(path, size) ==
  /\ files[path] # size
  /\ files' = [files EXCEPT ![path] = size]
  /\ last' = NoCall
  /\ UNCHANGED <<jobs, order, tasks, now, sweeper, nextUid, ticks,
               updates, rest>>

\* ------------------------------------------------- the application
\* POST /upload, accepted: write the file, create the job, dispatch the
\* orchestrator as a background task; id is the value drawn for the job.
\* Sessions, paths and ids are interchangeable, so the first upload of a
\* run is taken to use the first of each.
Upload(sid, path, size, id, preset) ==
  /\ nextUid <= MaxJobs
  /\ path # denied      \* else open() raises and nothing has changed
  /\ nextUid = 1 => sid = "sA" /\ path = "up1" /\ id = "a1"
  /\ files' = [files EXCEPT ![path] = size]
  /\ jobs' = Store(jobs, NewJob(nextUid, id, sid, path, preset, size, now))
  /\ order' = StoreKey(order, jobs, id)
  /\ tasks' = [t \in DOMAIN tasks \cup {nextUid} |->
                 IF t = nextUid THEN Task(id, "queued", NoRef, NoPath)
                 ELSE tasks[t]]
  /\ last' = NoCall
  /\ nextUid' = nextUid + 1
  /\ UNCHANGED <<now, sweeper, ticks, updates, rest>>

\* ------------------------------------- the requests of one browser
\* the response of an endpoint: status, detail of an HTTPException or
\* message, and the job id of an accepted upload
Resp(name, status, detail, id) ==
  [op |-> name, ret |-> status, raised |-> FALSE, detail |-> detail,
   job_id |-> id]

\* the response of POST /upload, with the file name and the content
\* length of the request it answers
UploadResp(filename, size, status, detail, id) ==
  [op |-> "Upload", ret |-> status, raised |-> FALSE, detail |-> detail,
   job_id |-> id, filename |-> filename, size |-> size]

\* get_or_create_session that accepts every identifier of 32 characters
\* or more
get_or_create_session_AtLeast(session_id, minted) ==
  IF session_id # NoSession /\ Len(session_id) >= 32 THEN session_id
  ELSE minted

\* get_or_create_session; minted is the value of uuid.uuid4().hex
get_or_create_session(session_id, minted) ==
  IF session_id # NoSession /\ Len(session_id) = 32 THEN session_id
  ELSE minted

\* Path(filename).suffix of a name without a directory part: the part from
\* the last dot on, unless that dot is the first or the last character
Suffix(name) ==
  LET dots == {i \in 1..Len(name) : name[i] = "."} IN
  IF dots = {} THEN <<>>
  ELSE LET i == CHOOSE k \in dots : \A m \in dots : m <= k
       IN  IF 1 < i /\ i < Len(name) THEN SubSeq(name, i, Len(name))
           ELSE <<>>

\* str.lower()
Lower(name) ==
  [k \in 1..Len(name) |->
     IF name[k] = "J" THEN "j" ELSE IF name[k] = "P" THEN "p"
     ELSE IF name[k] = "G" THEN "g" ELSE name[k]]

\* upload_file: the detail of the HTTPException it raises, NoMsg if none
upload_rejection(filename, size) ==
  IF filename = <<>> THEN NoSuchFileMsg
  ELSE IF Lower(Suffix(filename)) \notin ALLOWED_EXTENSIONS
  THEN UnsupportedMsg
  ELSE IF size > MaxContent THEN TooLargeMsg
  ELSE NoMsg

\* upload_file that writes the file before it looks at its size
ClientUpload_WriteFirst(minted, filename, size, path, id, preset) ==
  LET why == upload_rejection(filename, size)
      sid == get_or_create_session(cookie, minted)
  IN
  /\ IF why # NoMsg
     THEN /\ last' = UploadResp(filename, size, 400, why, NoMsg)
          /\ files' = IF why = TooLargeMsg
                      THEN [files EXCEPT ![path] = size] ELSE files
          /\ UNCHANGED <<jobs, order, tasks, nextUid>>
     ELSE /\ nextUid <= MaxJobs
          /\ path # denied
          /\ files' = [files EXCEPT ![path] = size]
          /\ jobs' = Store(jobs,
                           NewJob(nextUid, id, sid, path, preset, size, now))
          /\ order' = StoreKey(order, jobs, id)
          /\ tasks' = [t \in DOMAIN tasks \cup {nextUid} |->
                         IF t = nextUid
                         THEN Task(id, "queued", NoRef, NoPath)
                         ELSE tasks[t]]
          /\ nextUid' = nextUid + 1
          /\ last' = UploadResp(filename, size, 200, UploadedMsg, id)
  /\ UNCHANGED <<now, sweeper, ticks, updates, rest>>

\* POST /upload of the browser, with the response it receives.  The
\* session is the one of its cookie, or a minted one that no Set-Cookie
\* header carries back.
ClientUpload(minted, filename, size, path, id, preset) ==
  LET why == upload_rejection(filename, size)
      sid == get_or_create_session(cookie, minted)
  IN
  /\ IF why # NoMsg
     THEN /\ last' = UploadResp(filename, size, 400, why, NoMsg)
          /\ UNCHANGED <<jobs, order, files, tasks, nextUid>>
     ELSE /\ nextUid <= MaxJobs
          /\ path # denied
          /\ files' = [files EXCEPT ![path] = size]
          /\ jobs' = Store(jobs,
                           NewJob(nextUid, id, sid, path, preset, size, now))
          /\ order' = StoreKey(order, jobs, id)
          /\ tasks' = [t \in DOMAIN tasks \cup {nextUid} |->
                         IF t = nextUid
                         THEN Task(id, "queued", NoRef, NoPath)
                         ELSE tasks[t]]
          /\ nextUid' = nextUid + 1
          /\ last' = UploadResp(filename, size, 200, UploadedMsg, id)
  /\ UNCHANGED <<now, sweeper, ticks, updates, rest>>

\* GET /: the only handler that calls set_session_cookie
ClientIndex(minted) ==
  /\ cookie' = get_or_create_session(cookie, minted)
  /\ last' = Resp("Index", 200, NoMsg, NoMsg)
  /\ UNCHANGED <<jobs, order, files, tasks, now, sweeper, nextUid, ticks,
                 updates, slept, stuck, denied>>

\* the cookie of the browser is cleared, expires or is edited
SetCookie(tok) ==
  /\ tok # cookie
  /\ cookie' = tok
  /\ last' = NoCall
  /\ UNCHANGED <<jobs, order, files, tasks, now, sweeper, nextUid, ticks,
                 updates, slept, stuck, denied>>

SetTask(t, pc, job, result) ==
  tasks' = [tasks EXCEPT ![t] = Task(tasks[t].job_id, pc, job, result)]

\* process_compression_job without the early return for a job that is
\* not in the registry: the execution goes on to its later steps
OrchStart_NoReturn(t) ==
  LET id == tasks[t].job_id
      got == get_job(jobs, id, NoSession)
  IN
  /\ tasks[t].pc = "queued"
  /\ IF got = {}
     THEN /\ SetTask(t, "returned", NoRef, NoPath)
          /\ UNCHANGED jobs
     ELSE LET job == CHOOSE j \in got : TRUE
              u1 == update_job(jobs, files, now, id, PROCESSING, 10,
                               NoPath, NoMsg).jobs
              u2 == update_job(u1, files, now, id, NoStatus, 30,
                               NoPath, NoMsg).jobs
          IN  IF job.preset \notin PRESETS
              THEN \* PRESETS[preset] raises KeyError before any await
                   /\ jobs' = update_job(u2, files, now, id, FAILED,
                                         NoProgress, NoPath, KeyErrorMsg).jobs
                   /\ SetTask(t, "done", NoRef, NoPath)
              ELSE /\ jobs' = u2
                   /\ SetTask(t, "backend", Ref(job), NoPath)
  /\ last' = NoCall
  /\ UNCHANGED <<order, files, now, sweeper, nextUid, ticks, updates, rest>>

\* process_compression_job up to the point where compress_file suspends
OrchStart(t) ==
  LET id == tasks[t].job_id
      got == get_job(jobs, id, NoSession)
  IN
  /\ tasks[t].pc = "queued"
  /\ IF got = {}
     THEN /\ SetTask(t, "done", NoRef, NoPath)
          /\ UNCHANGED jobs
     ELSE LET job == CHOOSE j \in got : TRUE
              u1 == update_job(jobs, files, now, id, PROCESSING, 10,
                               NoPath, NoMsg).jobs
              u2 == update_job(u1, files, now, id, NoStatus, 30,
                               NoPath, NoMsg).jobs
          IN  IF job.preset \notin PRESETS
              THEN \* PRESETS[preset] raises KeyError before any await
                   /\ jobs' = update_job(u2, files, now, id, FAILED,
                                         NoProgress, NoPath, KeyErrorMsg).jobs
                   /\ SetTask(t, "done", NoRef, NoPath)
              ELSE /\ jobs' = u2
                   /\ SetTask(t, "backend", Ref(job), NoPath)
  /\ last' = NoCall
  /\ UNCHANGED <<order, files, now, sweeper, nextUid, ticks, updates, rest>>

\* what the encoder run by compress_file does: it writes the output file
\* and exits 0, it exits 0 without writing a file, or it fails
Outcomes == {"written", "unwritten", "failed"}

\* compress_file finishes outside the event loop: compress_video and
\* compress_image return the output path when the encoder exits 0
\* (compress_video without looking for the file), and None otherwise
BackendReturn(t, outcome) ==
  LET src == tasks[t].job.original_path
      out == OutPath(src)
  IN
  /\ tasks[t].pc = "backend"
  /\ files' = IF outcome = "written"
              THEN [files EXCEPT ![out] = OutSize(src)]
              ELSE files
  /\ SetTask(t, "returned", tasks[t].job,
             IF outcome = "failed" THEN NoPath ELSE out)
  /\ last' = NoCall
  /\ UNCHANGED <<jobs, order, now, sweeper, nextUid, ticks, updates, rest>>

\* the await of compress_file raises an exception whose str() is msg
BackendRaise(t, msg) ==
  /\ tasks[t].pc = "backend"
  /\ tasks' = [tasks EXCEPT ![t] = [@ EXCEPT !.pc = "returned", !.exc = msg]]
  /\ last' = NoCall
  /\ UNCHANGED <<jobs, order, files, now, sweeper, nextUid, ticks,
               updates, rest>>

\* process_compression_job whose failure branch also passes progress=100
OrchFinish_Force100(t) ==
  LET id == tasks[t].job_id
      compressed_path == tasks[t].result
      u1 == update_job(jobs, files, now, id, NoStatus, 90, NoPath, NoMsg).jobs
      ok == Exists(files, compressed_path)
  IN
  /\ tasks[t].pc = "returned"
  /\ jobs' = IF tasks[t].exc # NoExc
             THEN update_job(jobs, files, now, id, FAILED, NoProgress,
                             NoPath, tasks[t].exc).jobs
             ELSE IF ok
             THEN update_job(u1, files, now, id, COMPLETED, 100,
                             compressed_path, NoMsg).jobs
             ELSE update_job(u1, files, now, id, FAILED, 100,
                             NoPath, NoOutputMsg).jobs
  /\ SetTask(t, "done", NoRef, NoPath)
  /\ last' = NoCall
  /\ UNCHANGED <<order, files, now, sweeper, nextUid, ticks, updates, rest>>

\* process_compression_job from the return of compress_file to its end
OrchFinish(t) ==
  LET id == tasks[t].job_id
      compressed_path == tasks[t].result
      u1 == update_job(jobs, files, now, id, NoStatus, 90, NoPath, NoMsg).jobs
      ok == Exists(files, compressed_path)
  IN
  /\ tasks[t].pc = "returned"
  /\ jobs' = IF tasks[t].exc # NoExc
             THEN \* except Exception as e
                  update_job(jobs, files, now, id, FAILED, NoProgress,
                             NoPath, tasks[t].exc).jobs
             ELSE IF ok
             THEN update_job(u1, files, now, id, COMPLETED, 100,
                             compressed_path, NoMsg).jobs
             ELSE update_job(u1, files, now, id, FAILED, NoProgress,
                             NoPath, NoOutputMsg).jobs
  /\ SetTask(t, "done", NoRef, NoPath)
  /\ last' = NoCall
  /\ UNCHANGED <<order, files, now, sweeper, nextUid, ticks, updates, rest>>

\* GET /job/{job_id}: the status of the response and the view it carries
get_job_status(J, id, sid) ==
  LET got == get_job(J, id, sid) IN
  IF got = {} THEN [status |-> 404, body |-> {}]
  ELSE [status |-> 200, body |-> {to_dict(j) : j \in got}]

\* the download endpoint without its look at the disk
download_file_NoExists(J, F, id, sid) ==
  LET got == get_job(J, id, sid) IN
  IF got = {} THEN [status |-> 404, path |-> NoPath]
  ELSE LET job == CHOOSE j \in got : TRUE IN
       IF job.status # COMPLETED \/ job.compressed_path = NoPath
       THEN [status |-> 400, path |-> NoPath]
       ELSE [status |-> 200, path |-> job.compressed_path]

\* GET /download/{job_id}: the status of the response and the file that a
\* FileResponse serves
download_file(J, F, id, sid) ==
  LET got == get_job(J, id, sid) IN
  IF got = {} THEN [status |-> 404, path |-> NoPath]
  ELSE LET job == CHOOSE j \in got : TRUE IN
       IF job.status # COMPLETED \/ job.compressed_path = NoPath
       THEN [status |-> 400, path |-> NoPath]
       ELSE IF job.compressed_path = denied
       THEN [status |-> 500, path |-> NoPath]
       ELSE IF ~Exists(F, job.compressed_path)
       THEN [status |-> 404, path |-> NoPath]
       ELSE [status |-> 200, path |-> job.compressed_path]

\* GET /download-all: the status of the response and the files written to
\* the archive, in the order of the listing
download_all_completed(J, ord, F, sid) ==
  LET L == list_jobs(J, ord, sid)
      Ready(d) == d.status = COMPLETED /\ d.download_ready
      completed_jobs == SelectSeq(L, Ready)
      Written(d) ==
        \E job \in get_job(J, d.id, sid) :
          job.compressed_path # NoPath /\ Exists(F, job.compressed_path)
      written == SelectSeq(completed_jobs, Written)
  IN  IF completed_jobs = <<>> THEN [status |-> 400, archive |-> <<>>]
      ELSE [status |-> 200,
            archive |-> [k \in 1..Len(written) |->
                           J[written[k].id].compressed_path]]

\* the delete endpoint without the unlink of the output file
http_delete_job_SourceOnly(id, sid) ==
  LET got == get_job(jobs, id, sid) IN
  IF got = {}
  THEN UNCHANGED <<jobs, order, files>>
  ELSE LET job == CHOOSE j \in got : TRUE IN
       /\ files' = Unlink(files, {job.original_path})
       /\ jobs' = delete_job(jobs, id, sid)
       /\ order' = RemoveKeys(order, DOMAIN jobs \ DOMAIN jobs')

\* DELETE /job/{job_id}: the status of its response; an exception that
\* is no HTTPException is answered with 500
http_delete_job_status(id, sid) ==
  LET got == get_job(jobs, id, sid) IN
  IF got = {} THEN 404
  ELSE IF \E j \in got : denied \in JobFiles(j) THEN 500
  ELSE 200

\* DELETE /job/{job_id}: its effect on the registry and on the disk
http_delete_job(id, sid) ==
  LET got == get_job(jobs, id, sid) IN
  IF got = {}
  THEN \* 404
       UNCHANGED <<jobs, order, files>>
  ELSE LET job == CHOOSE j \in got : TRUE IN
       IF denied \in JobFiles(job)
       THEN \* exists() raises, after the unlink of the source file when
            \* it is the output file that cannot be looked up
            /\ files' = Unlink(files, {job.original_path} \ {denied})
            /\ UNCHANGED <<jobs, order>>
       ELSE /\ files' = Unlink(files, JobFiles(job))
            /\ jobs' = delete_job(jobs, id, sid)
            /\ order' = RemoveKeys(order, DOMAIN jobs \ DOMAIN jobs')

\* DELETE /job/{job_id}
HttpDeleteJob(id, sid) ==
  /\ http_delete_job(id, sid)
  /\ last' = NoCall
  /\ UNCHANGED <<tasks, now, sweeper, nextUid, ticks, updates, rest>>

\* DELETE /job/{job_id}, with the response its client receives
DeleteRequest(id, sid) ==
  /\ http_delete_job(id, sid)
  /\ last' = Op("HttpDelete", http_delete_job_status(id, sid), FALSE)
  /\ UNCHANGED <<tasks, now, sweeper, nextUid, ticks, updates, rest>>

\* DELETE /job/{job_id} of the browser
ClientDelete(minted, id) ==
  DeleteRequest(id, get_or_create_session(cookie, minted))

\* unlink() of the file at p starts to raise
Protect(p) ==
  /\ stuck = NoPath
  /\ files[p] # Absent
  /\ stuck' = p
  /\ last' = NoCall
  /\ UNCHANGED <<jobs, order, files, tasks, now, sweeper, nextUid, ticks,
                 updates, slept, denied, cookie>>

\* exists() of the path p starts to raise
Deny(p) ==
  /\ denied = NoPath
  /\ denied' = p
  /\ last' = NoCall
  /\ UNCHANGED <<jobs, order, files, tasks, now, sweeper, nextUid, ticks,
                 updates, slept, stuck, cookie>>

\* POST /clear-all behind a registry lock that an orchestrator execution
\* keeps while it waits for the backend
HttpClearAll_Locked(sid) ==
  /\ \A t \in DOMAIN tasks : tasks[t].pc # "backend"
  /\ clear_all(sid)
  /\ last' = NoCall
  /\ UNCHANGED <<tasks, now, sweeper, nextUid, ticks, updates, rest>>

\* DELETE /jobs
HttpClearAll(sid) ==
  /\ clear_all(sid)
  /\ last' = NoCall
  /\ UNCHANGED <<tasks, now, sweeper, nextUid, ticks, updates, rest>>

Min(a, b) == IF a < b THEN a ELSE b

\* d minutes pass between two events; the asyncio.sleep of cleanup_old_files
\* returns once its interval has elapsed
Tick(d) ==
  /\ ticks < MaxTicks
  /\ ticks' = ticks + 1
  /\ now' = now + d
  /\ slept' = IF sweeper = "sleeping"
              THEN Min(slept + d, CLEANUP_INTERVAL_MINUTES) ELSE slept
  /\ sweeper' = IF sweeper = "sleeping" /\ slept' = CLEANUP_INTERVAL_MINUTES
                THEN "ready" ELSE sweeper
  /\ last' = NoCall
  /\ UNCHANGED <<jobs, order, files, tasks, nextUid, updates, world>>

\* d minutes pass on an event loop that is never held up: the sleep of
\* cleanup_old_files returns at the minute its interval ends, and the pass
\* runs before the clock moves on
Elapse(d) ==
  /\ sweeper # "ready"
  /\ sweeper = "sleeping" => slept + d <= CLEANUP_INTERVAL_MINUTES
  /\ now + d <= MaxTime
  /\ now' = now + d
  /\ slept' = IF sweeper = "sleeping" THEN slept + d ELSE slept
  /\ sweeper' = IF sweeper = "sleeping" /\ slept' = CLEANUP_INTERVAL_MINUTES
                THEN "ready" ELSE sweeper
  /\ last' = NoCall
  /\ UNCHANGED <<jobs, order, files, tasks, nextUid, ticks, updates, world>>

\* one pass of the loop of cleanup_old_files; nothing in the loop catches
\* an exception of cleanup_old_jobs, which ends the coroutine
SweepPass ==
  /\ sweeper = "ready"
  /\ cleanup_old_jobs(MAX_FILE_AGE_MINUTES)
  /\ sweeper' = IF cleanup_old_jobs_raises(MAX_FILE_AGE_MINUTES)
                THEN "stopped" ELSE "sleeping"
  /\ slept' = 0
  /\ last' = NoCall
  /\ UNCHANGED <<tasks, now, nextUid, ticks, updates, world>>

\* ------------------------------------------------------- inputs
\* the arguments of the direct calls of update_job: the four combinations
\* process_compression_job passes, COMPLETED alone, no field at all, and an
\* empty message
UpdateArgs ==
  {<<PROCESSING, 10, NoPath, NoMsg>>,
   <<COMPLETED, NoProgress, NoPath, NoMsg>>,
   <<NoStatus, NoProgress, NoPath, NoMsg>>,
   <<NoStatus, 90, NoPath, "">>,
   <<COMPLETED, 100, "dl1", NoMsg>>,
   <<FAILED, NoProgress, NoPath, "boom">>}
\* the thresholds of the direct calls of cleanup_old_jobs
MaxAges == {MAX_FILE_AGE_MINUTES, MAX_FILE_AGE_MINUTES + 1}
\* minutes that pass between two events
TickSteps == {MAX_FILE_AGE_MINUTES + 1}
\* the files a caller of the registry writes
Writes == (SrcPaths \X SrcSizes) \cup {<<"dl1", OutSize("up1")>>}

AppNext ==
  \/ \E sid \in Sessions, path \in SrcPaths, size \in SrcSizes, id \in Ids,
        preset \in Presets :
        Upload(sid, path, size, id, preset)
  \/ \E t \in DOMAIN tasks : OrchStart(t)
  \/ \E t \in DOMAIN tasks, outcome \in Outcomes : BackendReturn(t, outcome)
  \/ \E t \in DOMAIN tasks : OrchFinish(t)
  \/ \E id \in Ids, sid \in Sessions : HttpDeleteJob(id, sid)
  \/ \E sid \in Sessions : HttpClearAll(sid)
  \/ \E d \in TickSteps : Tick(d)
  \/ SweepPass

RegNext ==
  \/ \E w \in Writes : WriteFile(w[1], w[2])
  \/ \E sid \in Sessions, path \in SrcPaths, id \in Ids :
        CreateJob(sid, path, id)
  \/ \E id \in Ids, sid \in Filters : DeleteJob(id, sid)
  \/ \E id \in Ids, a \in UpdateArgs : UpdateJob(id, a[1], a[2], a[3], a[4])
  \/ \E sid \in Filters : ClearAll(sid)
  \/ \E m \in MaxAges : EvictOlderThan(m)
  \/ \E d \in TickSteps : Tick(d)

\* the application: uploads, orchestrator executions, endpoints, sweeper
Spec == Init /\ [][AppNext]_vars

\* the registry under direct calls of its operations, in any order
RegSpec == Init /\ [][RegNext]_vars

ExcNext ==
  \/ AppNext
  \/ \E t \in DOMAIN tasks, msg \in ExcMsgs : BackendRaise(t, msg)

\* the application with a backend call that can also raise after it has
\* suspended
ExcSpec == Init /\ [][ExcNext]_vars

\* the event loop runs every coroutine that is ready: a queued background
\* task is started, and an execution whose await of compress_file has
\* finished is resumed; nothing makes a backend call finish
LoopFairness ==
  \A t \in 1..MaxJobs :
    /\ WF_vars(t \in DOMAIN tasks /\ OrchStart(t))
    /\ WF_vars(t \in DOMAIN tasks /\ OrchFinish(t))

\* the application with a backend call that can raise, on an event loop
\* that runs what is ready
LiveSpec == Init /\ [][ExcNext]_vars /\ LoopFairness

\* minutes that pass in one step of the clock that moves in small steps
ElapseSteps == {2, 3}

SweepNext ==
  \/ \E sid \in Sessions, path \in SrcPaths, size \in SrcSizes, id \in Ids :
        Upload(sid, path, size, id, "facebook")
  \/ \E id \in Ids, sid \in Sessions : HttpDeleteJob(id, sid)
  \/ \E d \in ElapseSteps : Elapse(d)
  \/ SweepPass
  \/ \E p \in SrcPaths : Deny(p)

\* uploads, deletions and the sweeper on a clock that moves in small steps,
\* with a path whose exists() raises
SweepSpec == Init /\ [][SweepNext]_vars

ClientNext ==
  \/ \E tok \in Cookies : SetCookie(tok)
  \/ \E m \in Tokens32 : ClientIndex(m)
  \/ \E m \in Tokens32, filename \in Filenames, size \in ContentSizes,
        id \in Ids :
        ClientUpload(m, filename, size, "up1", id, "facebook")
  \/ \E m \in Tokens32, id \in Ids : ClientDelete(m, id)

\* one browser and its cookie in front of the upload, index and delete
\* endpoints
ClientSpec == Init /\ [][ClientNext]_vars

\* the arguments of update_job that record an output file
CompletingArgs == {a \in UpdateArgs : a[3] # NoPath}

\* update_job(job_id, status=st) called on its own, any number of times
UpdateStatus(id, st) ==
  /\ jobs' = update_job(jobs, files, now, id, st, NoProgress, NoPath,
                        NoMsg).jobs
  /\ last' = Op("Update", 0, FALSE)
  /\ UNCHANGED <<order, files, tasks, now, sweeper, nextUid, ticks, updates,
                 rest>>

LifeNext ==
  \/ \E size \in SrcSizes : WriteFile("up1", size)
  \/ \E sid \in Sessions, id \in Ids : CreateJob(sid, "up1", id)
  \/ \E id \in Ids, st \in {PENDING, PROCESSING, COMPLETED, FAILED} :
        UpdateStatus(id, st)
  \/ \E id \in Ids, sid \in Filters : DeleteJob(id, sid)
  \/ \E d \in TickSteps : Tick(d)

\* records whose state is set by direct calls of update_job, in any order
LifeSpec == Init /\ [][LifeNext]_vars

\* byte sizes of the files of the calls that look at the ratio: an empty
\* file, sizes whose ratio lies half-way between two tenths (1 and 3 of
\* 16 or 400), the sizes of the example, an output larger than its source
RatioSizes == {0, 1, 3, 16, 400, 1000}

RatioNext ==
  \/ \E path \in {"up1", "dl1"}, size \in RatioSizes : WriteFile(path, size)
  \/ \E id \in Ids : CreateJob("sA", "up1", id)
  \/ \E id \in Ids, a \in CompletingArgs :
        UpdateJob(id, a[1], a[2], a[3], a[4])

\* records made and completed by direct calls over files of many sizes
RatioSpec == Init /\ [][RatioNext]_vars

DelNext ==
  \/ \E w \in Writes : WriteFile(w[1], w[2])
  \/ \E sid \in Sessions, path \in SrcPaths, id \in Ids :
        CreateJob(sid, path, id)
  \/ \E id \in Ids, a \in CompletingArgs :
        UpdateJob(id, a[1], a[2], a[3], a[4])
  \/ \E id \in Ids, sid \in Sessions : DeleteRequest(id, sid)
  \/ \E sid \in Filters : ClearAll(sid)
  \/ \E m \in MaxAges : EvictOlderThan(m)
  \/ \E d \in TickSteps : Tick(d)
  \/ \E p \in Paths : Protect(p)

\* the operations that destroy records, called in any order on records
\* with and without an output file, some of whose files cannot be unlinked
DelSpec == Init /\ [][DelNext]_vars

\* ============================================================ properties
\* C1: for every record and every non-empty session other than the owner's,
\* Get returns absent, exactly as it does for an id that has no record.
C1_ForeignGetIsAbsent ==
  /\ \A id \in DOMAIN jobs, S \in Sessions :
        S # jobs[id].session_id => get_job(jobs, id, S) = {}
  /\ \A id \in Ids \ DOMAIN jobs, S \in Sessions : get_job(jobs, id, S) = {}

\* C1 witness: a record that its owner gets and another session does not
C1_Witness ==
  \E id \in DOMAIN jobs, S \in Sessions :
    /\ S # jobs[id].session_id
    /\ get_job(jobs, id, S) = {}
    /\ get_job(jobs, id, jobs[id].session_id) = {jobs[id]}

\* C2: List(S) holds exactly one view of each record owned by S and no view
\* of any other record; the empty sequence when S owns nothing.
C2_ListIsTheSessionsRecords ==
  \A S \in Sessions :
    LET L == list_jobs(jobs, order, S)
        mine == {i \in DOMAIN jobs : jobs[i].session_id = S}
    IN  /\ Len(L) = Cardinality(mine)
        /\ \A i \in mine :
              Cardinality({k \in 1..Len(L) : L[k] = to_dict(jobs[i])}) = 1
        /\ \A k \in 1..Len(L) : L[k].id \in mine

\* C2 witness: two records of two sessions, each listed to its owner alone
C2_Witness ==
  /\ Cardinality(DOMAIN jobs) = 2
  /\ Len(list_jobs(jobs, order, "sA")) = 1
  /\ Len(list_jobs(jobs, order, "sB")) = 1

\* C3: Delete(id, S) returns true and removes exactly record id when the
\* record exists and is owned by S; otherwise it returns false, does not
\* raise and leaves every record as it was.
C3_DeleteOwnedOnly ==
  [][\A id \in Ids, S \in Sessions :
       DeleteJob(id, S) =>
         IF id \in DOMAIN jobs /\ jobs[id].session_id = S
         THEN /\ last'.ret = 1
              /\ DOMAIN jobs' = DOMAIN jobs \ {id}
              /\ \A i \in DOMAIN jobs' : jobs'[i] = jobs[i]
         ELSE /\ last'.ret = 0
              /\ ~last'.raised
              /\ jobs' = jobs
              /\ order' = order]_vars

\* C3 witness: a Delete that returned true and left another record in place
C3_Witness ==
  /\ last = Op("Delete", 1, FALSE)
  /\ DOMAIN jobs # {}

\* C4: ClearAll(S) removes the records S owns and no other, returns their
\* number, leaves the other sessions' records and files as they were, and
\* List(S) is empty afterwards; with no filter it removes every record and
\* returns how many there were.
C4_ClearAllTouchesOnlyTheSession ==
  [][\A S \in Filters :
       ClearAll(S) =>
         LET mine == {i \in DOMAIN jobs : ~Truthy(S) \/ jobs[i].session_id = S}
         IN  /\ DOMAIN jobs' = DOMAIN jobs \ mine
             /\ \A i \in DOMAIN jobs' : jobs'[i] = jobs[i]
             /\ last'.ret = Cardinality(mine)
             /\ list_jobs(jobs', order', S) = <<>>
             /\ Truthy(S) =>
                  \A i \in DOMAIN jobs' :
                    \A p \in JobFiles(jobs[i]) : files'[p] = files[p]]_vars

\* C6: Create never overwrites a record: the identifier it stores the new
\* record under is not the identifier of a record in the registry, and the
\* registry grows by one record.
C6_CreateNeverOverwrites ==
  [][\A S \in Sessions, p \in SrcPaths, id \in Ids :
       CreateJob(S, p, id) /\ ~last'.raised =>
         /\ id \notin DOMAIN jobs
         /\ Cardinality(DOMAIN jobs') = Cardinality(DOMAIN jobs) + 1]_vars

\* C7: Update of an identifier that has no record does not raise and leaves
\* the registry as it was, whatever fields are passed.
C7_UpdateOfAbsentIsNoOp ==
  [][\A id \in Ids, a \in UpdateArgs :
       UpdateJob(id, a[1], a[2], a[3], a[4]) /\ id \notin DOMAIN jobs =>
         /\ ~last'.raised
         /\ jobs' = jobs
         /\ order' = order
         /\ files' = files]_vars

\* C7 witness: an Update made when every record had been removed again
C7_Witness ==
  /\ last = Op("Update", 0, FALSE)
  /\ DOMAIN jobs = {}
  /\ nextUid > 1

\* the position of a lifecycle state in PENDING -> PROCESSING -> terminal
Rank(st) == IF st = PENDING THEN 0 ELSE IF st = PROCESSING THEN 1 ELSE 2

\* an orchestrator execution that has been dispatched and has not ended
InFlight(t) == tasks[t].pc \in {"queued", "backend", "returned"}

\* C5: along every execution of the system the state of a job's record never
\* moves backwards in PENDING -> PROCESSING -> (COMPLETED | FAILED), and a
\* record that is COMPLETED or FAILED never shows another state afterwards.
C5_LifecycleIsMonotonic ==
  [][\A id \in DOMAIN jobs \cap DOMAIN jobs' :
       jobs'[id].uid = jobs[id].uid =>
         /\ Rank(jobs'[id].status) >= Rank(jobs[id].status)
         /\ Rank(jobs[id].status) = 2 => jobs'[id].status = jobs[id].status]_vars

\* C8: while an orchestrator execution is in flight and the identifier of its
\* job has no record, the identifier stays absent from the registry and
\* every step of the execution leaves the registry as it was.
C8_RemovedJobStaysAbsent ==
  [][\A t \in DOMAIN tasks :
       InFlight(t) /\ tasks[t].job_id \notin DOMAIN jobs =>
         /\ tasks[t].job_id \notin DOMAIN jobs'
         /\ OrchStart(t) => jobs' = jobs
         /\ OrchFinish(t) => jobs' = jobs]_vars

\* C9: an orchestrator execution dispatched for a job in the registry puts
\* the record in PROCESSING, and when the backend has returned a path whose
\* file exists and is not empty and the record is still there, it ends with
\* the record COMPLETED, progress 100, the output location equal to the
\* returned path and the size of that file recorded.
C9_SuccessCompletesTheJob ==
  [][\A t \in DOMAIN tasks :
       LET id == tasks[t].job_id
           out == tasks[t].result
       IN  /\ ( /\ tasks[t].pc = "queued" /\ tasks'[t].pc # "queued"
                /\ id \in DOMAIN jobs
                /\ jobs[id].preset \in PRESETS ) =>
                /\ jobs'[id].status = PROCESSING
                /\ tasks'[t].pc = "backend"
           /\ ( /\ tasks[t].pc = "returned" /\ tasks'[t].pc = "done"
                /\ id \in DOMAIN jobs
                /\ jobs[id].uid = tasks[t].job.uid
                /\ out # NoPath
                /\ files[out] > 0 ) =>
                /\ jobs'[id].status = COMPLETED
                /\ jobs'[id].progress = 100
                /\ jobs'[id].compressed_path = out
                /\ jobs'[id].compressed_size = files[out]
                /\ tasks'[t].pc = "done"]_vars

\* C9 witness: an execution has ended and its record is COMPLETED at 100
\* with an output location and a positive output size
C9_Witness ==
  \E t \in DOMAIN tasks :
    /\ tasks[t].pc = "done"
    /\ tasks[t].job_id \in DOMAIN jobs
    /\ LET j == jobs[tasks[t].job_id]
       IN  /\ j.status = COMPLETED
           /\ j.progress = 100
           /\ j.compressed_path \in OutPaths
           /\ j.compressed_size > 0

\* C10: when the backend has returned no path, or a path whose file does not
\* exist, the execution ends with the record FAILED, an error description
\* that is not empty, and the progress last set before the failure (90),
\* not 100.
C10_NoOutputFailsTheJob ==
  [][\A t \in DOMAIN tasks :
       LET id == tasks[t].job_id
       IN  ( /\ tasks[t].pc = "returned" /\ tasks'[t].pc = "done"
             /\ id \in DOMAIN jobs
             /\ jobs[id].uid = tasks[t].job.uid
             /\ ~Exists(files, tasks[t].result) ) =>
             /\ jobs'[id].status = FAILED
             /\ jobs'[id].error_message = NoOutputMsg
             /\ jobs'[id].error_message \notin {NoMsg, ""}
             /\ jobs'[id].progress = 90
             /\ tasks'[t].pc = "done"]_vars

\* C10 witness: an execution has ended and its record is FAILED with the
\* no-output description and progress 90
C10_Witness ==
  \E t \in DOMAIN tasks :
    /\ tasks[t].pc = "done"
    /\ tasks[t].job_id \in DOMAIN jobs
    /\ LET j == jobs[tasks[t].job_id]
       IN  /\ j.status = FAILED
           /\ j.error_message = NoOutputMsg
           /\ j.progress = 90

\* C11: when the backend call has raised, the execution ends with the record
\* FAILED and an error description equal to the message of the exception,
\* whatever the message, and the execution ends normally.
C11_RaiseFailsWithTheMessage ==
  [][\A t \in DOMAIN tasks :
       LET id == tasks[t].job_id
       IN  ( /\ OrchFinish(t)
             /\ tasks[t].exc # NoExc
             /\ id \in DOMAIN jobs
             /\ jobs[id].uid = tasks[t].job.uid ) =>
             /\ jobs'[id].status = FAILED
             /\ jobs'[id].error_message = tasks[t].exc
             /\ tasks'[t].pc = "done"]_vars

\* C12: when the backend has returned a path whose file exists and is empty,
\* the execution ends with the record FAILED and an error description; an
\* execution ends with the record COMPLETED only when the returned file
\* exists and is not empty.
C12_EmptyOutputFails ==
  [][\A t \in DOMAIN tasks :
       LET id == tasks[t].job_id
           out == tasks[t].result
       IN  ( /\ OrchFinish(t)
             /\ id \in DOMAIN jobs
             /\ jobs[id].uid = tasks[t].job.uid ) =>
             /\ (out # NoPath /\ files[out] = 0) =>
                  /\ jobs'[id].status = FAILED
                  /\ jobs'[id].error_message \notin {NoMsg, ""}
             /\ jobs'[id].status = COMPLETED =>
                  Exists(files, out) /\ files[out] > 0]_vars

\* C13: in every reachable state a record has a completion timestamp exactly
\* when its state is COMPLETED (so never when it is FAILED), and a timestamp
\* that has been set never changes.
C13_TimestampIffCompleted ==
  /\ [](\A id \in DOMAIN jobs :
          jobs[id].completed_at # NoTime <=> jobs[id].status = COMPLETED)
  /\ [][\A id \in DOMAIN jobs \cap DOMAIN jobs' :
          (jobs'[id].uid = jobs[id].uid /\ jobs[id].completed_at # NoTime) =>
            jobs'[id].completed_at = jobs[id].completed_at]_vars

\* C14: a record has an output size exactly when it has an output location;
\* every Update that sets the location, whether it returns or raises, leaves
\* the record with the size of the file at that location, and a record
\* without a location has no size.
C14_SizeIffLocation ==
  /\ [](\A id \in DOMAIN jobs :
          jobs[id].compressed_path = NoPath => jobs[id].compressed_size = 0)
  /\ [][\A id \in DOMAIN jobs, a \in UpdateArgs :
          (UpdateJob(id, a[1], a[2], a[3], a[4]) /\
           jobs'[id].compressed_path # NoPath) =>
            /\ Exists(files, jobs'[id].compressed_path)
            /\ jobs'[id].compressed_size = files[jobs'[id].compressed_path]]_vars

\* C15: download_ready in the view of a record is true exactly when its
\* state is COMPLETED and it has an output location, so it is false for
\* every PENDING, PROCESSING and FAILED record; Update(id, COMPLETED, P) for a
\* file P makes it true and leaves the completion timestamp set and the
\* output size equal to the size of P.
C15_DownloadReady ==
  /\ [](\A id \in DOMAIN jobs :
          /\ to_dict(jobs[id]).download_ready <=>
               (jobs[id].status = COMPLETED /\ jobs[id].compressed_path # NoPath)
          /\ jobs[id].status \in {PENDING, PROCESSING, FAILED} =>
               ~to_dict(jobs[id]).download_ready)
  /\ [][\A id \in DOMAIN jobs, a \in UpdateArgs :
          ( /\ UpdateJob(id, a[1], a[2], a[3], a[4])
            /\ a[1] = COMPLETED
            /\ Exists(files, a[3]) ) =>
            /\ to_dict(jobs'[id]).download_ready
            /\ jobs'[id].completed_at # NoTime
            /\ jobs'[id].compressed_size = files[a[3]]]_vars

\* C15 witness: an Update has returned and left a record whose view is ready
\* for download, next to a record whose view is not
C15_Witness ==
  /\ last = Op("Update", 0, FALSE)
  /\ \E id \in DOMAIN jobs :
       /\ to_dict(jobs[id]).download_ready
       /\ jobs[id].compressed_size > 0
  /\ \E id \in DOMAIN jobs : ~to_dict(jobs[id]).download_ready

\* C16: a Create that returns stores exactly one new record, with the given
\* session, source path and preset, PENDING, progress 0, the original size
\* equal to the size of the source file, no output location, no output size,
\* no error description and no completion timestamp, and every record that
\* was in the registry is still there and equal to what it was.
C16_CreateAddsOneRecord ==
  [][\A S \in Sessions, p \in SrcPaths, id \in Ids :
       CreateJob(S, p, id) /\ ~last'.raised =>
         /\ id \in DOMAIN jobs'
         /\ jobs'[id].session_id = S
         /\ jobs'[id].original_path = p
         /\ jobs'[id].preset = "facebook"
         /\ jobs'[id].status = PENDING
         /\ jobs'[id].progress = 0
         /\ jobs'[id].original_size = files[p]
         /\ jobs'[id].compressed_path = NoPath
         /\ jobs'[id].compressed_size = 0
         /\ jobs'[id].error_message = NoMsg
         /\ jobs'[id].completed_at = NoTime
         /\ \A i \in DOMAIN jobs : i \in DOMAIN jobs' /\ jobs'[i] = jobs[i]]_vars

\* C17: a Create whose source file cannot be stat'ed raises and leaves the
\* registry as it was: no record is stored and no orchestrator execution is
\* dispatched.
C17_CreateRaisesWithoutStoring ==
  [][\A S \in Sessions, p \in SrcPaths, id \in Ids :
       CreateJob(S, p, id) /\ files[p] = Absent =>
         /\ last'.raised
         /\ jobs' = jobs
         /\ order' = order
         /\ tasks' = tasks]_vars

\* C17 witness: a Create has raised while the registry held a record
C17_Witness ==
  /\ last = Op("Create", 0, TRUE)
  /\ DOMAIN jobs # {}

\* C18: an Update changes only the fields that are passed, plus the
\* completion timestamp when COMPLETED is passed and the output size when an
\* output location is passed; it never changes the identifier, the owning
\* session, the source path, the preset, the original size or the creation
\* time of the record, and it never changes another record.
C18_UpdateIsPartial ==
  [][\A id \in DOMAIN jobs, a \in UpdateArgs :
       UpdateJob(id, a[1], a[2], a[3], a[4]) =>
         /\ DOMAIN jobs' = DOMAIN jobs
         /\ \A i \in DOMAIN jobs \ {id} : jobs'[i] = jobs[i]
         /\ jobs'[id].uid = jobs[id].uid
         /\ jobs'[id].id = jobs[id].id
         /\ jobs'[id].session_id = jobs[id].session_id
         /\ jobs'[id].original_path = jobs[id].original_path
         /\ jobs'[id].preset = jobs[id].preset
         /\ jobs'[id].original_size = jobs[id].original_size
         /\ jobs'[id].created_at = jobs[id].created_at
         /\ a[1] = NoStatus => jobs'[id].status = jobs[id].status
         /\ a[1] # COMPLETED => jobs'[id].completed_at = jobs[id].completed_at
         /\ a[2] = NoProgress => jobs'[id].progress = jobs[id].progress
         /\ a[3] = NoPath =>
              /\ jobs'[id].compressed_path = jobs[id].compressed_path
              /\ jobs'[id].compressed_size = jobs[id].compressed_size
         /\ a[4] = NoMsg => jobs'[id].error_message = jobs[id].error_message
         /\ order' = order
         /\ files' = files]_vars

\* C18 witness: an Update has changed one of two records, some time after
\* they were created
C18_Witness ==
  /\ last = Op("Update", 0, FALSE)
  /\ \E i, k \in DOMAIN jobs :
       /\ i # k
       /\ jobs[i].status # PENDING
       /\ jobs[i].created_at < now
       /\ jobs[k] = NewJob(jobs[k].uid, k, jobs[k].session_id,
                           jobs[k].original_path, jobs[k].preset,
                           jobs[k].original_size, jobs[k].created_at)

\* C19: List(S) gives the jobs of S newest first in the order of their
\* creation: a job created later comes before every job created earlier,
\* whatever the timestamps the creations read from the clock.
C19_ListIsNewestFirst ==
  \A S \in Sessions :
    LET L == list_jobs(jobs, order, S)
    IN  \A k, m \in 1..Len(L) :
          k < m => jobs[L[k].id].uid > jobs[L[m].id].uid

\* C20: EvictOlderThan(maxAge) removes exactly the records whose age is
\* strictly greater than maxAge, whatever their session and state, returns
\* their number, deletes the files of the evicted records and no other file,
\* and leaves every younger record and the files it references as they were.
C20_EvictRemovesOnlyTheOld ==
  [][\A m \in MaxAges :
       EvictOlderThan(m) =>
         LET gone == {i \in DOMAIN jobs : now - jobs[i].created_at > m}
         IN  /\ DOMAIN jobs' = DOMAIN jobs \ gone
             /\ last'.ret = Cardinality(gone)
             /\ \A p \in FilesOf(jobs, gone) : files'[p] = Absent
             /\ \A p \in Paths \ FilesOf(jobs, gone) : files'[p] = files[p]
             /\ \A i \in DOMAIN jobs' :
                  /\ jobs'[i] = jobs[i]
                  /\ \A p \in JobFiles(jobs[i]) : files'[p] = files[p]]_vars

\* C21: whenever a record is destroyed (by the delete endpoint, by ClearAll
\* with a session filter, by ClearAll with no filter, or by eviction) the
\* source file and the output file it references are gone from disk after
\* the same step, unless their unlink() raised; a raising unlink() is
\* swallowed and the record is removed all the same.
C21_DestroyRemovesTheFiles ==
  [][/\ \A i \in DOMAIN jobs \ DOMAIN jobs' :
          \A p \in JobFiles(jobs[i]) \ {stuck} : files'[p] = Absent
     /\ \A id \in Ids, sid \in Sessions :
          DeleteRequest(id, sid) /\ get_job(jobs, id, sid) # {} =>
            id \notin DOMAIN jobs' /\ ~last'.raised
     /\ \A sid \in Filters :
          ClearAll(sid) =>
            Cleared(jobs, sid) \cap DOMAIN jobs' = {} /\ ~last'.raised
     /\ \A m \in MaxAges :
          EvictOlderThan(m) =>
            Expired(jobs, now, m) \cap DOMAIN jobs' = {} /\ ~last'.raised
    ]_vars

\* C22: the delete endpoint answers 404 for an id that is absent or owned
\* by another session and then changes neither the registry nor any file;
\* for a job owned by the caller's session it answers 200, removes the
\* record and both files the record references (a file whose unlink()
\* raises stays), and a status request for that id then answers 404.
C22_DeleteEndpoint ==
  [][\A id \in Ids, sid \in Sessions :
       DeleteRequest(id, sid) =>
         IF id \notin DOMAIN jobs \/ jobs[id].session_id # sid
         THEN /\ last'.ret = 404
              /\ UNCHANGED <<jobs, order, files>>
         ELSE /\ last'.ret = 200
              /\ id \notin DOMAIN jobs'
              /\ \A p \in JobFiles(jobs[id]) :
                    files'[p] = IF p = stuck THEN files[p] ELSE Absent
              /\ get_job_status(jobs', id, sid).status = 404]_vars

\* C22 witness: the only job ever created, with an output file recorded,
\* has just been deleted through the endpoint and no file is left
C22_Witness ==
  /\ last = Op("HttpDelete", 200, FALSE)
  /\ nextUid = 2 /\ updates = 1
  /\ stuck = NoPath
  /\ \A p \in Paths : files[p] = Absent

\* C23: the sweeper loop runs for the whole process lifetime: a pass that
\* raises is caught and the loop goes on; the sweeper is never stopped.
C23_SweeperNeverStops == sweeper # "stopped"

\* C24: a record is removed no later than the first sweeper pass that runs
\* after its age exceeds the max-age, so that no record older than the
\* max-age plus one sweep interval is in the registry.
C24_EvictedWithinOneInterval ==
  /\ [](\A i \in DOMAIN jobs :
          now - jobs[i].created_at
            <= MAX_FILE_AGE_MINUTES + CLEANUP_INTERVAL_MINUTES)
  /\ [][SweepPass =>
          \A i \in DOMAIN jobs' :
            now - jobs'[i].created_at <= MAX_FILE_AGE_MINUTES]_vars

\* C25: an upload with an empty filename, an extension outside the
\* accepted set, or content larger than the cap is answered 400 with a
\* detail that names the reason, before any job is created: the registry
\* is unchanged, no file is written, no orchestrator is dispatched.
C25_RejectedUploadChangesNothing ==
  [][last'.op = "Upload" =>
       LET empty == last'.filename = <<>>
           badExt == Lower(Suffix(last'.filename)) \notin ALLOWED_EXTENSIONS
           tooBig == last'.size > max_file_size_mb * 1024 * 1024
       IN  (empty \/ badExt \/ tooBig) =>
             /\ last'.ret = 400
             /\ last'.detail \in
                  {d \in {NoSuchFileMsg} : empty}
                    \cup {d \in {UnsupportedMsg} : badExt}
                    \cup {d \in {TooLargeMsg} : tooBig}
             /\ UNCHANGED <<jobs, order, files, tasks>>]_vars

\* C25 witness: an upload of a .jpg file of one byte more than the cap has
\* been rejected by a server that holds a job
C25_Witness ==
  /\ last.op = "Upload" /\ last.ret = 400
  /\ last.filename = <<"a", ".", "j", "p", "g">>
  /\ last.size = MaxContent + 1
  /\ DOMAIN jobs # {}

\* C26: the download endpoint serves a file only for a job that is owned by
\* the caller's session, is COMPLETED and has an output location whose file
\* exists, and then serves that file; it answers 404 for an absent or
\* foreign id, 400 for an owned job that is not COMPLETED, and 404 when the
\* record is COMPLETED but the output file is gone from disk.
C26_DownloadStatus ==
  \A id \in Ids, sid \in Sessions :
    LET r == download_file(jobs, files, id, sid)
        owned == id \in DOMAIN jobs /\ jobs[id].session_id = sid
    IN  /\ r.status = 200 =>
              /\ owned
              /\ jobs[id].status = COMPLETED
              /\ jobs[id].compressed_path # NoPath
              /\ files[jobs[id].compressed_path] # Absent
              /\ r.path = jobs[id].compressed_path
        /\ ~owned => r.status = 404
        /\ owned /\ jobs[id].status # COMPLETED => r.status = 400
        /\ owned /\ jobs[id].status = COMPLETED
                 /\ jobs[id].compressed_path # NoPath
                 /\ files[jobs[id].compressed_path] = Absent
              => r.status = 404
        /\ r.status \in {200, 400, 404}

\* C26 witness: a job is COMPLETED, its output file is gone, and the
\* download request of its owner answers 404
C26_Witness ==
  \E id \in DOMAIN jobs :
    /\ jobs[id].status = COMPLETED
    /\ jobs[id].compressed_path # NoPath
    /\ files[jobs[id].compressed_path] = Absent
    /\ download_file(jobs, files, id, jobs[id].session_id).status = 404

\* C27: the bulk-download endpoint answers 400 when the caller's session
\* has no COMPLETED, download-ready job; otherwise it returns one archive
\* that holds the output of every such job of the session and nothing else.
C27_BulkDownload ==
  \A sid \in Sessions :
    LET r == download_all_completed(jobs, order, files, sid)
        ready == {i \in DOMAIN jobs :
                    /\ jobs[i].session_id = sid
                    /\ jobs[i].status = COMPLETED
                    /\ jobs[i].compressed_path # NoPath}
    IN  IF ready = {} THEN r.status = 400
        ELSE /\ r.status = 200
             /\ {r.archive[k] : k \in 1..Len(r.archive)}
                  = {jobs[i].compressed_path : i \in ready}

\* C28: a caller-supplied session identifier is the session of the request
\* if and only if its length is 32; an absent, empty or wrong-length
\* identifier is replaced by a freshly minted identifier of that length.
\* Observed on the cookie that GET / sets and on the session of the job
\* that an accepted upload creates.
C28_SessionAcceptedIffLength32 ==
  [][LET supplied == cookie
         session == IF last'.op = "Index" THEN cookie'
                    ELSE jobs'[last'.job_id].session_id
     IN  \/ last'.op = "Index"
         \/ last'.op = "Upload" /\ last'.ret = 200
         => /\ Len(session) = 32
            /\ session = supplied <=> Len(supplied) = 32]_vars

\* C28 witness: an upload sent with a cookie of 33 characters was accepted
\* and its job is in a minted session, next to a job of an earlier upload
\* that was sent with a cookie of 32 characters and is in that session
C28_Witness ==
  /\ last.op = "Upload" /\ last.ret = 200
  /\ Len(cookie) = 33
  /\ jobs[last.job_id].session_id \in Tokens32
  /\ \E id \in DOMAIN jobs \ {last.job_id} :
       jobs[id].session_id # jobs[last.job_id].session_id

\* C29: when a client without a valid session token has an upload
\* accepted, the session minted for the upload is persisted to the client:
\* whatever value the next request would mint, the status request for the
\* returned id answers 200 with that id and the listing holds the job.
C29_UploadPersistsSession ==
  [][last'.op = "Upload" /\ last'.ret = 200 /\ Len(cookie) # 32 =>
       /\ cookie' = jobs'[last'.job_id].session_id
       /\ \A m \in Tokens32 :
            LET sid == get_or_create_session(cookie', m)
                got == get_job_status(jobs', last'.job_id, sid)
                L == list_jobs(jobs', order', sid)
            IN  /\ got.status = 200
                /\ got.body.id = last'.job_id
                /\ \E k \in 1..Len(L) : L[k].id = last'.job_id]_vars

\* C30: the registry operations that HTTP requests, orchestrator executions
\* and the sweeper issue take effect atomically. In every state each record,
\* as List shows it, carries whole Updates only: a COMPLETED record has its
\* completion time, progress 100 and its output location, an output
\* location comes with the size read for it, a FAILED record has its error
\* description. In every step a record in the registry is a record that
\* was there before or the one record the step creates (a removed record
\* never comes back), an orchestrator step changes no record but the one
\* under its job id, its Update is not lost (the record, if present, shows
\* the state the step wrote), and a step that issues no registry operation
\* leaves the registry as it is.
C30_RegistryOperationsAreAtomic ==
  /\ [](\A sid \in Filters :
          LET L == list_jobs(jobs, order, sid) IN
          \A k \in 1..Len(L) :
            LET d == L[k] IN
            /\ d = to_dict(jobs[d.id])
            /\ d.status = COMPLETED =>
                  /\ d.completed_at # NoTime
                  /\ d.progress = 100
                  /\ d.output_filename # NoPath
            /\ d.output_filename # NoPath =>
                  \E p \in SrcPaths : /\ d.output_filename = OutPath(p)
                                      /\ d.compressed_size = OutSize(p)
            /\ d.status = FAILED => d.error_message # NoMsg)
  /\ [][/\ \A i \in DOMAIN jobs' :
             \/ \E k \in DOMAIN jobs : jobs[k].uid = jobs'[i].uid
             \/ jobs'[i].uid = nextUid /\ nextUid' = nextUid + 1
        /\ \A t \in DOMAIN tasks :
             \* the execution t takes this step
             LET id == tasks[t].job_id IN
             tasks'[t].pc # tasks[t].pc =>
               /\ DOMAIN jobs' = DOMAIN jobs
               /\ \A i \in DOMAIN jobs \ {id} : jobs'[i] = jobs[i]
               /\ tasks[t].pc = "queued" /\ id \in DOMAIN jobs =>
                    jobs'[id].status \in {PROCESSING, FAILED}
               /\ tasks[t].pc = "backend" => jobs' = jobs
               /\ tasks[t].pc = "returned" /\ id \in DOMAIN jobs =>
                    jobs'[id].status \in {COMPLETED, FAILED}
        /\ now' # now => jobs' = jobs]_vars

\* C30 witness: a record was removed while its orchestrator execution was
\* in flight, the execution has ended, and another record, COMPLETED by its
\* own execution, is in the registry
C30_Witness ==
  \E t, u \in DOMAIN tasks :
    /\ tasks[t].pc = "done" /\ tasks[u].pc = "done"
    /\ \A i \in DOMAIN jobs : jobs[i].uid # t
    /\ \E i \in DOMAIN jobs : jobs[i].uid = u /\ jobs[i].status = COMPLETED

\* C31: while an orchestrator execution is suspended in the backend call,
\* and while the sweeper sleeps, the registry is not locked: an upload
\* (Create), a status request (Get), a listing (List), a deletion, a
\* clear-all, the sweeper's pass once its sleep has returned, and the steps
\* of the other executions (their Updates) can each be taken at once, and
\* they complete with the suspended execution still in its backend call.
C31_NothingWaitsForTheBackend ==
  /\ sweeper = "sleeping" =>
      /\ \A id \in DOMAIN jobs :
           ENABLED (HttpDeleteJob(id, jobs[id].session_id)
                    /\ sweeper' = "sleeping")
      /\ \A sid \in Sessions :
           ENABLED (HttpClearAll(sid) /\ sweeper' = "sleeping")
      /\ nextUid <= MaxJobs =>
           ENABLED (Upload("sA", "up1", 1000, "a1", "facebook")
                    /\ sweeper' = "sleeping")
      /\ \A u \in DOMAIN tasks :
           /\ tasks[u].pc = "queued" =>
                ENABLED (OrchStart(u) /\ sweeper' = "sleeping")
           /\ tasks[u].pc = "returned" =>
                ENABLED (OrchFinish(u) /\ sweeper' = "sleeping")
  /\ \A t \in DOMAIN tasks :
    tasks[t].pc = "backend" =>
      /\ \A id \in DOMAIN jobs :
           /\ ENABLED (HttpDeleteJob(id, jobs[id].session_id)
                       /\ tasks'[t] = tasks[t])
           /\ get_job_status(jobs, id, jobs[id].session_id).status = 200
      /\ \A sid \in Sessions :
           /\ ENABLED (HttpClearAll(sid) /\ tasks'[t] = tasks[t])
           /\ Len(list_jobs(jobs, order, sid)) <= Cardinality(DOMAIN jobs)
      /\ nextUid <= MaxJobs =>
           \A id \in Ids :
             ENABLED (Upload("sB", "up2", 1000, id, "facebook")
                      /\ tasks'[t] = tasks[t])
      /\ sweeper = "ready" => ENABLED (SweepPass /\ tasks'[t] = tasks[t])
      /\ \A u \in DOMAIN tasks \ {t} :
           /\ tasks[u].pc = "queued" =>
                ENABLED (OrchStart(u) /\ tasks'[t] = tasks[t])
           /\ tasks[u].pc = "returned" =>
                ENABLED (OrchFinish(u) /\ tasks'[t] = tasks[t])

\* C31 witness: one execution is in its backend call, the record of its
\* job is in the registry, and another execution has its backend call
\* behind it and has ended with its record COMPLETED
C31_Witness ==
  \E t, u \in DOMAIN tasks :
    /\ tasks[t].pc = "backend"
    /\ \E i \in DOMAIN jobs : jobs[i].uid = t
    /\ tasks[u].pc = "done"
    /\ \E i \in DOMAIN jobs : jobs[i].uid = u /\ jobs[i].status = COMPLETED

\* C32: an orchestrator execution dispatched for a job reads and writes
\* only the record created for that job: whether it succeeds, fails or
\* raises, no step of it changes or removes a record that a different
\* Create call made.
C32_ExecutionTouchesItsOwnRecordOnly ==
  [][\A t \in DOMAIN tasks :
       tasks'[t].pc # tasks[t].pc =>
         \A i \in DOMAIN jobs :
           jobs[i].uid # t => i \in DOMAIN jobs' /\ jobs'[i] = jobs[i]]_vars

\* C33: the progress of every job is an integer in 0..100 that never
\* decreases over the lifetime of the record; under the orchestrator it
\* takes the values 0, 10, 30, 90, 100 in that order, possibly stopping
\* early on failure.
C33_ProgressNeverDecreases ==
  /\ [](\A i \in DOMAIN jobs : jobs[i].progress \in {0, 10, 30, 90, 100})
  /\ [][\A i \in DOMAIN jobs \cap DOMAIN jobs' :
          jobs'[i].uid = jobs[i].uid =>
            jobs'[i].progress >= jobs[i].progress]_vars

\* C34: the compression ratio of a job's view is null exactly when the
\* output size is unset or the original size is zero; otherwise it is
\* (1 - output_size / original_size) * 100 rounded to one decimal place,
\* for all sizes; original 1000 and output 400 give 60.0. The output size
\* is unset while no output location is recorded, and it is set by the
\* Update that records an output location and returns.
C34_CompressionRatio ==
  /\ [](\A i \in DOMAIN jobs :
          LET j == jobs[i]
              ratio == to_dict(j).compression_ratio
          IN  /\ j.compressed_path = NoPath \/ j.original_size = 0 =>
                   ratio = {}
              /\ \A r \in ratio :
                   LET diff == r * j.original_size
                                 - 1000 * (j.original_size - j.compressed_size)
                   IN  /\ 2 * diff <= j.original_size
                       /\ -2 * diff <= j.original_size
              /\ j.original_size = 1000 /\ j.compressed_size = 400 =>
                   ratio = {600})
  /\ [][last'.op = "Update" /\ ~last'.raised =>
          \A i \in DOMAIN jobs :
            jobs'[i] # jobs[i] /\ jobs'[i].compressed_path # NoPath =>
              (to_dict(jobs'[i]).compression_ratio = {}
                 <=> jobs'[i].original_size = 0)]_vars

\* C35: when the job id passed to the orchestrator has no record at
\* dispatch time, the execution returns at once without raising, does not
\* call the backend, and leaves the registry and the files as they are.
C35_MissingJobIsANoOp ==
  [][\A t \in DOMAIN tasks :
       ( /\ tasks[t].pc = "queued"
         /\ tasks'[t].pc # "queued"
         /\ tasks[t].job_id \notin DOMAIN jobs ) =>
         /\ tasks'[t].pc = "done"
         /\ tasks'[t].exc = NoExc
         /\ UNCHANGED <<jobs, order, files>>]_vars

\* C35 witness: the only upload was deleted before its execution ran, the
\* execution has ended, and no file is on disk
C35_Witness ==
  /\ nextUid = 2
  /\ jobs = << >>
  /\ tasks[1].pc = "done"
  /\ \A p \in Paths : files[p] = Absent

\* C36: the Update operation itself enforces the lifecycle order for any
\* arguments: applied to a record in COMPLETED or FAILED with a different
\* state it leaves the state of the record unchanged, and it never moves a
\* record from PROCESSING back to PENDING.
C36_UpdateEnforcesTheLifecycle ==
  [][last'.op = "Update" =>
       \A i \in DOMAIN jobs :
         /\ jobs[i].status \in {COMPLETED, FAILED} =>
              jobs'[i].status = jobs[i].status
         /\ jobs[i].status = PROCESSING => jobs'[i].status # PENDING]_vars

\* C37: in every reachable state a record carries an error description if
\* and only if its state is FAILED: every FAILED record has a non-empty
\* description, and no PENDING, PROCESSING or COMPLETED record has one.
C37_ErrorIffFailed ==
  \A i \in DOMAIN jobs :
    jobs[i].error_message \notin {NoMsg, ""} <=> jobs[i].status = FAILED

\* C38: in every reachable state of the system driven by uploads and
\* orchestrator executions a record has progress 100 if and only if its
\* state is COMPLETED, a PENDING record has progress 0, and a COMPLETED
\* record has an output location, so that COMPLETED and download-ready
\* coincide.
C38_ProgressAgreesWithTheState ==
  \A i \in DOMAIN jobs :
    /\ jobs[i].progress = 100 <=> jobs[i].status = COMPLETED
    /\ jobs[i].status = PENDING => jobs[i].progress = 0
    /\ jobs[i].status = COMPLETED => jobs[i].compressed_path # NoPath
    /\ to_dict(jobs[i]).download_ready <=> jobs[i].status = COMPLETED

\* C39: every job whose execution was dispatched and whose backend call has
\* returned or raised eventually is COMPLETED or FAILED, or its record is
\* removed; and a job whose backend call has not returned stays in
\* PROCESSING as long as its record is in the registry: no step moves it to
\* another state.
C39_JobsEndUnlessTheBackendHangs ==
  /\ \A t \in 1..MaxJobs :
       (t \in DOMAIN tasks /\ tasks[t].pc = "returned")
         ~> (\A i \in DOMAIN jobs :
               jobs[i].uid = t => jobs[i].status \in {COMPLETED, FAILED})
  /\ [][\A t \in DOMAIN tasks :
          tasks[t].pc = "backend" /\ tasks'[t].pc = "backend" =>
            \A i \in DOMAIN jobs \cap DOMAIN jobs' :
              jobs[i].uid = t /\ jobs'[i].uid = t =>
                jobs[i].status = PROCESSING /\ jobs'[i].status = PROCESSING]_vars

\* C40: when the execution of a job ends and the job's record is no longer
\* in the registry, and when delete, clear or eviction removes the record of
\* a job whose execution has ended, neither the job's source file nor its
\* output file is on disk.
C40_NoFileOutlivesItsJob ==
  [][/\ \A t \in DOMAIN tasks :
          (/\ tasks[t].pc = "returned" /\ tasks'[t].pc = "done"
           /\ \A i \in DOMAIN jobs' : jobs'[i].uid # t) =>
            /\ files'[tasks[t].job.original_path] = Absent
            /\ files'[OutPath(tasks[t].job.original_path)] = Absent
     /\ \A i \in DOMAIN jobs :
          (/\ nextUid' = nextUid
           /\ tasks[jobs[i].uid].pc = "done"
           /\ \A k \in DOMAIN jobs' : jobs'[k].uid # jobs[i].uid) =>
            /\ files'[jobs[i].original_path] = Absent
            /\ jobs[i].compressed_path # NoPath =>
                 files'[jobs[i].compressed_path] = Absent]_vars

====
